---- MODULE Spec2Model ----
(***************************************************************************)
(* Model of src/emprestimo.py: class Emprestimo.                           *)
(*                                                                         *)
(* A text (str) is a sequence of one-character strings.  A datetime is a   *)
(* record [year, month, day] (the time of day is always 00:00).  A number  *)
(* (int or float) is an exact fraction <<numerator, denominator>> with a   *)
(* positive denominator; None is the empty tuple.  The instance is the     *)
(* function `self` from attribute names to values, as Python's __dict__.   *)
(***************************************************************************)
EXTENDS Integers, Sequences, FiniteSets, TLC

VARIABLES
    fase,        \* "inicio": nothing built; "viva": __init__ returned; "falhou": __init__ raised
    self,        \* the attributes the instance has
    entrada,     \* the arguments __init__ was called with (<<>> before the call)
    erro,        \* the exception the last call raised, [tipo |-> "nenhum"] when it returned
    retorno,     \* what the last call returned
    historico,   \* the lists calcula_parcelas_vencimentos returned so far
    stdout,      \* the lines print() wrote
    chamadas     \* number of calls made on the instance

vars == <<fase, self, entrada, erro, retorno, historico, stdout, chamadas>>

---------------------------------------------------------------------------
\* Bounds of the model.

\* largest tempo_anos tried
MaxTempoAnos == 2
\* calls made on one instance
MaxChamadas == 2

\* tempo_anos values tried: the terms of the contract and the terms <= 0
TemposEntrada == (-1)..MaxTempoAnos
\* valor_emprestimo values tried
Valores == {1000, 1200}
\* day, month and year numbers written in the start-date strings
DiasEntrada == {10, 29, 31, 32}
MesesEntrada == {1, 2, 13}
AnosEntrada == {2024, 2025}

---------------------------------------------------------------------------
\* Numbers.

None == <<>>

Abs(x) == IF x < 0 THEN -x ELSE x

RECURSIVE GCD(_, _)
GCD(a, b) == IF b = 0 THEN a ELSE GCD(b, a % b)

\* the fraction n/d in lowest terms, d > 0
Frac(n, d) ==
    LET g == GCD(Abs(n), Abs(d))
        s == IF d < 0 THEN -1 ELSE 1
    IN  <<(s * n) \div g, (s * d) \div g>>

FromInt(n) == <<n, 1>>
FMul(a, b) == Frac(a[1] * b[1], a[2] * b[2])
FAdd(a, b) == Frac(a[1] * b[2] + b[1] * a[2], a[2] * b[2])
\* a / b, b # 0
FDiv(a, b) == Frac(a[1] * b[2], a[2] * b[1])
FIsZero(a) == a[1] = 0

RECURSIVE IntPow(_, _)
IntPow(b, e) == IF e = 0 THEN 1 ELSE b * IntPow(b, e - 1)

\* a ** e for an integer e (a # 0 when e < 0)
FPow(a, e) ==
    IF e >= 0 THEN Frac(IntPow(a[1], e), IntPow(a[2], e))
    ELSE Frac(IntPow(a[2], -e), IntPow(a[1], -e))

\* round(x, 2) as a count of hundredths; a tie goes to the even neighbour
Round2(x) ==
    LET n == 100 * x[1]
        d == x[2]
        q == n \div d
        r == n % d
    IN  IF 2 * r < d THEN q
        ELSE IF 2 * r > d THEN q + 1
        ELSE IF q % 2 = 0 THEN q ELSE q + 1

---------------------------------------------------------------------------
\* Texts.

DigitChar == <<"0", "1", "2", "3", "4", "5", "6", "7", "8", "9">>
IsDigit(c) == \E i \in 1..10 : DigitChar[i] = c
DigitVal(c) == (CHOOSE i \in 1..10 : DigitChar[i] = c) - 1

\* str(n) for n >= 0
RECURSIVE IntStr(_)
IntStr(n) ==
    IF n < 10 THEN <<DigitChar[n + 1]>>
    ELSE Append(IntStr(n \div 10), DigitChar[(n % 10) + 1])

\* n written with at least w digits, zero filled
RECURSIVE ZeroFill(_, _)
ZeroFill(s, w) == IF Len(s) >= w THEN s ELSE ZeroFill(<<"0">> \o s, w)

\* int(s) of a text of digits
RECURSIVE DigitsVal(_)
DigitsVal(s) ==
    IF Len(s) = 0 THEN 0
    ELSE 10 * DigitsVal(SubSeq(s, 1, Len(s) - 1)) + DigitVal(s[Len(s)])

AllDigits(s) == \A i \in 1..Len(s) : IsDigit(s[i])

\* positions of character c in s
Positions(s, c) == {i \in 1..Len(s) : s[i] = c}

\* repr() of the float h/100, h a count of hundredths: the shortest text
\* that reads back, which keeps one decimal digit at least
FloatStr(h) ==
    LET a == Abs(h)
        ip == IntStr(a \div 100)
        f == a % 100
        fp == IF f % 10 = 0 THEN <<DigitChar[(f \div 10) + 1]>>
              ELSE <<DigitChar[(f \div 10) + 1], DigitChar[(f % 10) + 1]>>
        sg == IF h < 0 THEN <<"-">> ELSE <<>>
    IN  sg \o ip \o <<".">> \o fp

---------------------------------------------------------------------------
\* Dates.

IsLeap(y) == (y % 4 = 0) /\ ((y % 100 # 0) \/ (y % 400 = 0))

\* calendar.monthrange(y, m)[1]
DaysInMonth(y, m) ==
    IF m = 2 THEN (IF IsLeap(y) THEN 29 ELSE 28)
    ELSE IF m \in {4, 6, 9, 11} THEN 30 ELSE 31

\* datetime.strftime('%d/%m/%Y')
Strftime(dt) ==
    ZeroFill(IntStr(dt.day), 2) \o <<"/">> \o ZeroFill(IntStr(dt.month), 2)
        \o <<"/">> \o ZeroFill(IntStr(dt.year), 4)

\* datetime.strptime(s, '%d/%m/%Y'): [ok |-> TRUE, data |-> datetime] or
\* [ok |-> FALSE] where strptime raises ValueError.  The directives match
\* %d: 1 or 2 digits, value 1..31; %m: 1 or 2 digits, value 1..12;
\* %Y: exactly 4 digits; the day must exist in the month and the year be >= 1.
Strptime(s) ==
    LET sl == Positions(s, "/")
    IN  IF Cardinality(sl) # 2 THEN [ok |-> FALSE]
        ELSE
          LET p1 == CHOOSE i \in sl : \A j \in sl : i <= j
              p2 == CHOOSE i \in sl : \A j \in sl : j <= i
              ds == SubSeq(s, 1, p1 - 1)
              ms == SubSeq(s, p1 + 1, p2 - 1)
              ys == SubSeq(s, p2 + 1, Len(s))
          IN  IF ~ (/\ Len(ds) \in {1, 2} /\ AllDigits(ds)
                    /\ Len(ms) \in {1, 2} /\ AllDigits(ms)
                    /\ Len(ys) = 4 /\ AllDigits(ys))
              THEN [ok |-> FALSE]
              ELSE
                LET d == DigitsVal(ds)
                    m == DigitsVal(ms)
                    y == DigitsVal(ys)
                IN  IF /\ d \in 1..31
                       /\ m \in 1..12
                       /\ y >= 1
                       /\ d <= DaysInMonth(y, m)
                    THEN [ok |-> TRUE, data |-> [year |-> y, month |-> m, day |-> d]]
                    ELSE [ok |-> FALSE]

\* dt + relativedelta(months=1)
MaisUmMes(dt) ==
    LET y == IF dt.month = 12 THEN dt.year + 1 ELSE dt.year
        m == IF dt.month = 12 THEN 1 ELSE dt.month + 1
        dim == DaysInMonth(y, m)
    IN  [year |-> y, month |-> m, day |-> IF dt.day <= dim THEN dt.day ELSE dim]

---------------------------------------------------------------------------
\* The inputs tried.

\* variant: the parameter defaults to 10%
TaxaOmitida_dez_por_cento == <<1, 10>>

\* the default of the parameter taxa_juros
TaxaOmitida == None

\* taxa_juros values tried: omitted, 0.0 and 0.1
Taxas == {TaxaOmitida, <<0, 1>>, <<1, 10>>}

\* "dd/mm/yyyy", whether or not the date exists
TextoBarra(d, m, y) ==
    ZeroFill(IntStr(d), 2) \o <<"/">> \o ZeroFill(IntStr(m), 2)
        \o <<"/">> \o ZeroFill(IntStr(y), 4)

\* "yyyy-mm-dd"
TextoISO(d, m, y) ==
    ZeroFill(IntStr(y), 4) \o <<"-">> \o ZeroFill(IntStr(m), 2)
        \o <<"-">> \o ZeroFill(IntStr(d), 2)

DatasEntrada ==
    {TextoBarra(d, m, y) : d \in DiasEntrada, m \in MesesEntrada, y \in AnosEntrada}
    \cup {TextoISO(d, m, y) : d \in DiasEntrada, m \in MesesEntrada, y \in AnosEntrada}

---------------------------------------------------------------------------
\* class Emprestimo.

Nenhum == [tipo |-> "nenhum"]
ZeroDivisionError == [tipo |-> "ZeroDivisionError"]

\* the value of self.formato
Formato == "%d/%m/%Y"

\* the text of the ValueError raised for data_str: the f-string's literal
\* parts around the interpolated data_str (the backslash at the end of
\* line 44 joins the two source lines)
MensagemData(data_str) ==
    <<"D", "a", "t", "a", " ", "i", "n", "i", "c", "i", "a", "l", " ", "\"">>
    \o data_str \o
    <<"\"", " ", "n", "ã", "o", " ", "e", "s", "t", "á", " ", "n", "o", " ", "f", "o", "r", "m", "a", "t",
      "o", " ", "c", "o", "r", "r", "e", "t", "o", " ", "\"", "d", "d", "/", "m", "m", "/", "a", "a", "a", "a", "\"">>

\* _validar_data_inicial: [ok |-> TRUE, data] or [ok |-> FALSE, erro]
validar_data_inicial(data_str) ==
    LET r == Strptime(data_str)
    IN  IF r.ok THEN [ok |-> TRUE, data |-> r.data]
        ELSE [ok |-> FALSE,
              erro |-> [tipo |-> "ValueError", msg |-> MensagemData(data_str)]]

\* the truth value of `self.taxa_juros` in `if self.taxa_juros:`
Truthy(taxa) == taxa # None /\ ~ FIsZero(taxa)

\* variant: simple interest, M = C * (1 + i * t)
calcula_valor_juros_simples(s) ==
    LET taxa == FAdd(FromInt(1), FMul(s.taxa_juros, FromInt(s.tempo_anos)))
    IN  [s EXCEPT !.valor_emprestimo = FMul(@, taxa)]

\* _calcula_valor_juros: the attributes after the call
calcula_valor_juros(s) ==
    LET taxa == FPow(FAdd(FromInt(1), s.taxa_juros), s.tempo_anos)
    IN  [s EXCEPT !.valor_emprestimo = FMul(@, taxa)]

\* variant: the start date is validated after the other attributes are set
init_valida_por_ultimo(valor_emprestimo_, tempo_anos_, data_inicial_str, taxa_juros_) ==
    LET s0 == [formato |-> Formato,
               valor_emprestimo |-> valor_emprestimo_,
               tempo_anos |-> tempo_anos_,
               taxa_juros |-> taxa_juros_]
        s1 == IF Truthy(s0.taxa_juros) THEN calcula_valor_juros(s0) ELSE s0
        v == validar_data_inicial(data_inicial_str)
    IN  IF ~ v.ok THEN [ok |-> FALSE, self |-> s1, erro |-> v.erro]
        ELSE [ok |-> TRUE,
              self |-> [formato |-> s1.formato,
                        data_inicial_datetime |-> v.data,
                        valor_emprestimo |-> s1.valor_emprestimo,
                        tempo_anos |-> s1.tempo_anos,
                        taxa_juros |-> s1.taxa_juros],
              erro |-> Nenhum]

\* __init__: [ok, self, erro], self being the attributes set when it ends
init(valor_emprestimo_, tempo_anos_, data_inicial_str, taxa_juros_) ==
    LET s0 == [formato |-> Formato]
        v == validar_data_inicial(data_inicial_str)
    IN  IF ~ v.ok THEN [ok |-> FALSE, self |-> s0, erro |-> v.erro]
        ELSE
          LET s1 == [formato |-> s0.formato,
                     data_inicial_datetime |-> v.data,
                     valor_emprestimo |-> valor_emprestimo_,
                     tempo_anos |-> tempo_anos_,
                     taxa_juros |-> taxa_juros_]
          IN  [ok |-> TRUE,
               self |-> IF Truthy(s1.taxa_juros) THEN calcula_valor_juros(s1) ELSE s1,
               erro |-> Nenhum]

\* property parcelas
parcelas(s) == s.tempo_anos * 12

\* variant: the principal is divided by the years, not by the installments
valor_parcela_por_ano(s) ==
    IF s.tempo_anos = 0 THEN [ok |-> FALSE, erro |-> ZeroDivisionError]
    ELSE [ok |-> TRUE, valor |-> FDiv(s.valor_emprestimo, FromInt(s.tempo_anos))]

\* property valor_parcela: [ok |-> TRUE, valor] or [ok |-> FALSE, erro]
valor_parcela(s) ==
    IF parcelas(s) = 0 THEN [ok |-> FALSE, erro |-> ZeroDivisionError]
    ELSE [ok |-> TRUE, valor |-> FDiv(s.valor_emprestimo, FromInt(parcelas(s)))]

\* f'{round(valor_parcela, 2)}'
valor_arredondado_str(valor) == FloatStr(Round2(valor))

\* _formatar_parcela
formatar_parcela(s, data_parcela, valor, num_parcela) ==
    LET data_str == Strftime(data_parcela)
        valor_str == <<"V", "a", "l", "o", "r", ":", " ">> \o valor_arredondado_str(valor)
        contagem_parcelas == IntStr(num_parcela) \o <<"/">> \o IntStr(parcelas(s))
    IN  data_str \o <<" ">> \o valor_str \o <<" ">> \o contagem_parcelas

\* variant: the first installment falls due on the start date itself
calcula_data_parcela_inicial_sem_delta(s) == s.data_inicial_datetime

\* _calcula_data_parcela_inicial
calcula_data_parcela_inicial(s) == MaisUmMes(s.data_inicial_datetime)

\* range(a, b) as the sequence of its values
PyRange(a, b) == [i \in 1..(IF b > a THEN b - a ELSE 0) |-> a + i - 1]

\* variant: the range stops one short, range(1, self.parcelas)
faixa_parcelas_curta(s) == PyRange(1, parcelas(s))

\* the values of num_parcela the loop takes
faixa_parcelas(s) == PyRange(1, parcelas(s) + 1)

\* dt + relativedelta(months=n), n >= 0
RECURSIVE MaisMeses(_, _)
MaisMeses(dt, n) ==
    IF n = 0 THEN dt
    ELSE LET t == dt.month + n
             y == dt.year + ((t - 1) \div 12)
             m == ((t - 1) % 12) + 1
             dim == DaysInMonth(y, m)
         IN  [year |-> y, month |-> m, day |-> IF dt.day <= dim THEN dt.day ELSE dim]

\* variant: each due date is counted from the start date,
\* self.data_inicial_datetime + relativedelta(months=num_parcela + 1)
proxima_data_do_inicio(s, data_parcela_atual, num_parcela) ==
    MaisMeses(s.data_inicial_datetime, num_parcela + 1)

\* data_parcela_atual after one turn of the loop
proxima_data(s, data_parcela_atual, num_parcela) == MaisUmMes(data_parcela_atual)

\* the for loop of calcula_parcelas_vencimentos from the i-th value of the
\* range on: lista_parcelas when it ends
RECURSIVE laco_parcelas(_, _, _, _, _, _)
laco_parcelas(s, faixa, i, data_parcela_atual, valor_parcela_atual, lista_parcelas) ==
    IF i > Len(faixa) THEN lista_parcelas
    ELSE laco_parcelas(s, faixa, i + 1,
                       proxima_data(s, data_parcela_atual, faixa[i]),
                       valor_parcela_atual,
                       Append(lista_parcelas,
                              formatar_parcela(s, data_parcela_atual,
                                               valor_parcela_atual, faixa[i])))

\* variant: the interest is applied again on every call
calcula_parcelas_vencimentos_reaplica(s) ==
    LET s2 == IF Truthy(s.taxa_juros) THEN calcula_valor_juros(s) ELSE s
        data_parcela_atual == calcula_data_parcela_inicial(s2)
        vp == valor_parcela(s2)
    IN  IF ~ vp.ok THEN [ok |-> FALSE, erro |-> vp.erro, self |-> s2]
        ELSE [ok |-> TRUE,
              lista |-> laco_parcelas(s2, faixa_parcelas(s2), 1, data_parcela_atual,
                                      vp.valor, <<>>),
              self |-> s2]

\* variant: self.valor_parcela is read inside the loop, so an empty range
\* never divides
calcula_parcelas_vencimentos_preguicosa(s) ==
    LET data_parcela_atual == calcula_data_parcela_inicial(s)
    IN  IF Len(faixa_parcelas(s)) = 0 THEN [ok |-> TRUE, lista |-> <<>>, self |-> s]
        ELSE [ok |-> TRUE,
              lista |-> laco_parcelas(s, faixa_parcelas(s), 1, data_parcela_atual,
                                      valor_parcela(s).valor, <<>>),
              self |-> s]

\* calcula_parcelas_vencimentos: [ok |-> TRUE, lista, self] or
\* [ok |-> FALSE, erro, self], self being the attributes when it ends
calcula_parcelas_vencimentos(s) ==
    LET data_parcela_atual == calcula_data_parcela_inicial(s)
        vp == valor_parcela(s)
    IN  IF ~ vp.ok THEN [ok |-> FALSE, erro |-> vp.erro, self |-> s]
        ELSE [ok |-> TRUE,
              lista |-> laco_parcelas(s, faixa_parcelas(s), 1, data_parcela_atual,
                                      vp.valor, <<>>),
              self |-> s]

\* imprime_parcelas_vencimentos: [ok |-> TRUE, impresso, lista, self] or
\* [ok |-> FALSE, erro, self]; impresso are the lines print() wrote
imprime_parcelas_vencimentos(s) ==
    LET r == calcula_parcelas_vencimentos(s)
    IN  IF ~ r.ok THEN r
        ELSE [ok |-> TRUE, impresso |-> r.lista, lista |-> r.lista, self |-> r.self]

---------------------------------------------------------------------------
\* The state machine: one instance, built once and then called.

Init ==
    /\ fase = "inicio"
    /\ self = <<>>
    /\ entrada = <<>>
    /\ erro = Nenhum
    /\ retorno = [op |-> "nenhuma"]
    /\ historico = <<>>
    /\ stdout = <<>>
    /\ chamadas = 0

\* Emprestimo(valor_emprestimo, tempo_anos, data_inicial_str, taxa_juros)
Construir ==
    /\ fase = "inicio"
    /\ \E v \in Valores, t \in TemposEntrada,
          d \in DatasEntrada, j \in Taxas :
          LET r == init(FromInt(v), t, d, j)
          IN  /\ entrada' = [valor_emprestimo |-> FromInt(v), tempo_anos |-> t,
                             data_inicial_str |-> d, taxa_juros |-> j]
              /\ self' = r.self
              /\ erro' = r.erro
              /\ fase' = IF r.ok THEN "viva" ELSE "falhou"
    /\ retorno' = [op |-> "__init__"]
    /\ UNCHANGED <<historico, stdout, chamadas>>

PodeChamar == fase = "viva" /\ chamadas < MaxChamadas

\* emprestimo.parcelas
LerParcelas ==
    /\ PodeChamar
    /\ retorno' = [op |-> "parcelas", valor |-> parcelas(self)]
    /\ erro' = Nenhum
    /\ chamadas' = chamadas + 1
    /\ UNCHANGED <<fase, self, entrada, historico, stdout>>

\* emprestimo.valor_parcela
LerValorParcela ==
    LET r == valor_parcela(self)
    IN  /\ PodeChamar
        /\ retorno' = IF r.ok THEN [op |-> "valor_parcela", valor |-> r.valor]
                      ELSE [op |-> "valor_parcela"]
        /\ erro' = IF r.ok THEN Nenhum ELSE r.erro
        /\ chamadas' = chamadas + 1
        /\ UNCHANGED <<fase, self, entrada, historico, stdout>>

\* emprestimo.calcula_parcelas_vencimentos()
CalculaParcelasVencimentos ==
    LET r == calcula_parcelas_vencimentos(self)
    IN  /\ PodeChamar
        /\ retorno' = IF r.ok
                      THEN [op |-> "calcula_parcelas_vencimentos", valor |-> r.lista]
                      ELSE [op |-> "calcula_parcelas_vencimentos"]
        /\ erro' = IF r.ok THEN Nenhum ELSE r.erro
        /\ historico' = IF r.ok THEN Append(historico, r.lista) ELSE historico
        /\ self' = r.self
        /\ chamadas' = chamadas + 1
        /\ UNCHANGED <<fase, entrada, stdout>>

\* emprestimo.imprime_parcelas_vencimentos()
ImprimeParcelasVencimentos ==
    LET r == imprime_parcelas_vencimentos(self)
    IN  /\ PodeChamar
        /\ retorno' = [op |-> "imprime_parcelas_vencimentos"]
        /\ erro' = IF r.ok THEN Nenhum ELSE r.erro
        /\ stdout' = IF r.ok THEN stdout \o r.impresso ELSE stdout
        /\ historico' = IF r.ok THEN Append(historico, r.lista) ELSE historico
        /\ self' = r.self
        /\ chamadas' = chamadas + 1
        /\ UNCHANGED <<fase, entrada>>

Next ==
    \/ Construir
    \/ LerParcelas
    \/ LerValorParcela
    \/ CalculaParcelasVencimentos
    \/ ImprimeParcelasVencimentos

Spec == Init /\ [][Next]_vars

---------------------------------------------------------------------------
\* Reading a returned line back, for the properties below.  These read the
\* text by position and by its separators, not with the operators that
\* produced it.

\* the fields of text s between the occurrences of character c
RECURSIVE Split(_, _)
Split(s, c) ==
    IF Positions(s, c) = {} THEN <<s>>
    ELSE LET p == CHOOSE i \in Positions(s, c) : \A j \in Positions(s, c) : j <= i
         IN  Append(Split(SubSeq(s, 1, p - 1), c), SubSeq(s, p + 1, Len(s)))

\* the four fields of a line: date, "Valor:", amount, index/total
Campos(linha) == Split(linha, " ")

\* the text is dd/mm/yyyy
FormaDDMMAAAA(t) ==
    /\ Len(t) = 10
    /\ t[3] = "/" /\ t[6] = "/"
    /\ \A i \in {1, 2, 4, 5, 7, 8, 9, 10} : IsDigit(t[i])

\* the date a dd/mm/yyyy text names
DataDoTexto(t) ==
    [year |-> DigitsVal(SubSeq(t, 7, 10)),
     month |-> DigitsVal(SubSeq(t, 4, 5)),
     day |-> DigitsVal(SubSeq(t, 1, 2))]

\* the first field of a line: the text before its first space
PrimeiroCampo(linha) ==
    LET p == CHOOSE i \in Positions(linha, " ") : \A j \in Positions(linha, " ") : i <= j
    IN  SubSeq(linha, 1, p - 1)

DataDaLinha(linha) == DataDoTexto(PrimeiroCampo(linha))

\* the amount a line shows, in hundredths (amounts >= 0, one or two decimals)
CentavosDaLinha(linha) ==
    LET v == Split(Campos(linha)[3], ".")
    IN  100 * DigitsVal(v[1])
          + (IF Len(v[2]) = 1 THEN 10 * DigitsVal(v[2]) ELSE DigitsVal(v[2]))

\* the sum of a sequence of integers
RECURSIVE SomaAte(_, _)
SomaAte(q, n) == IF n = 0 THEN 0 ELSE q[n] + SomaAte(q, n - 1)
Soma(q) == SomaAte(q, Len(q))

SomaCentavos(lista) == Soma([k \in 1..Len(lista) |-> CentavosDaLinha(lista[k])])

\* the calendar: last day of month m of year y
UltimoDia(y, m) ==
    IF m = 2
    THEN (IF y % 400 = 0 \/ (y % 4 = 0 /\ y % 100 # 0) THEN 29 ELSE 28)
    ELSE <<31, 0, 31, 30, 31, 30, 31, 31, 30, 31, 30, 31>>[m]

\* b is exactly one calendar month after a: the next month, the same day
\* when that month has it and the month's last day otherwise
UmMesDepois(a, b) ==
    /\ b.month = (a.month % 12) + 1
    /\ b.year = a.year + (IF a.month = 12 THEN 1 ELSE 0)
    /\ b.day = IF a.day <= UltimoDia(b.year, b.month) THEN a.day
               ELSE UltimoDia(b.year, b.month)

\* text sub occurs in text s
Contem(s, sub) ==
    \E i \in 0..(Len(s) - Len(sub)) : SubSeq(s, i + 1, i + Len(sub)) = sub

\* the last call was calcula_parcelas_vencimentos and it returned a list
RetornouLista ==
    /\ fase = "viva"
    /\ retorno.op = "calcula_parcelas_vencimentos"
    /\ erro.tipo = "nenhum"

\* the start date the constructor was given, read from its text
DataEntrada == DataDoTexto(entrada.data_inicial_str)

---------------------------------------------------------------------------
\* Properties.

\* C1: for tempo_anos >= 1 the list calcula_parcelas_vencimentos returns has
\* exactly tempo_anos * 12 lines, and line k ends with "k/<tempo_anos * 12>":
\* the indices are 1, 2, ..., none skipped or repeated.
C1_ListaCompleta ==
    (RetornouLista /\ entrada.tempo_anos >= 1) =>
        LET total == entrada.tempo_anos * 12
        IN  /\ Len(retorno.valor) = total
            /\ \A k \in 1..Len(retorno.valor) :
                  LET c == Campos(retorno.valor[k])
                  IN  Len(c) = 4 /\ c[4] = IntStr(k) \o <<"/">> \o IntStr(total)

\* a two-year loan returned its 24 lines
C1_Witness ==
    /\ RetornouLista
    /\ entrada.tempo_anos = 2
    /\ Len(retorno.valor) = 24

\* C2: for tempo_anos >= 1 the first line's due date is one calendar month
\* after the start date and every later line's due date is one calendar
\* month after the line before it, the day kept when the month has it and
\* clamped to the month's last day otherwise.
C2_UmMesEntreParcelas ==
    (RetornouLista /\ entrada.tempo_anos >= 1) =>
        /\ Len(retorno.valor) >= 1
        /\ \A k \in 1..Len(retorno.valor) : FormaDDMMAAAA(PrimeiroCampo(retorno.valor[k]))
        /\ LET datas == [k \in 1..Len(retorno.valor) |-> DataDaLinha(retorno.valor[k])]
           IN  /\ UmMesDepois(DataEntrada, datas[1])
               /\ \A k \in 2..Len(retorno.valor) : UmMesDepois(datas[k - 1], datas[k])

\* start 31/01/2025: the first due date is 28/02/2025
C2_Witness ==
    /\ RetornouLista
    /\ entrada.tempo_anos >= 1
    /\ DataEntrada = [year |-> 2025, month |-> 1, day |-> 31]
    /\ DataDaLinha(retorno.valor[1]) = [year |-> 2025, month |-> 2, day |-> 28]

\* C10: along a returned list the day of month of the due dates never
\* increases and never exceeds the start date's day, so a due date clamped to
\* a shorter month keeps every later due date at that lower day; for a start
\* day <= 28 every due date has the start date's day.
C10_DiaNuncaAumenta ==
    RetornouLista =>
        LET dias == [k \in 1..Len(retorno.valor) |-> DataDaLinha(retorno.valor[k]).day]
        IN  /\ \A k \in 1..Len(retorno.valor) : dias[k] <= DataEntrada.day
            /\ \A k \in 2..Len(retorno.valor) : dias[k] <= dias[k - 1]
            /\ DataEntrada.day <= 28 =>
                  \A k \in 1..Len(retorno.valor) : dias[k] = DataEntrada.day

\* start 31/01/2025: 28/02/2025, then 28/03/2025 although March has 31 days
C10_Witness ==
    /\ RetornouLista
    /\ DataEntrada = [year |-> 2025, month |-> 1, day |-> 31]
    /\ Len(retorno.valor) >= 2
    /\ DataDaLinha(retorno.valor[1]) = [year |-> 2025, month |-> 2, day |-> 28]
    /\ DataDaLinha(retorno.valor[2]) = [year |-> 2025, month |-> 3, day |-> 28]

\* the principal nd = <<n, d>> compounded year by year at rate r
RECURSIVE Capitaliza(_, _, _)
Capitaliza(nd, r, anos) ==
    IF anos = 0 THEN nd
    ELSE IF anos > 0 THEN Capitaliza(<<nd[1] * (r[2] + r[1]), nd[2] * r[2]>>, r, anos - 1)
    ELSE Capitaliza(<<nd[1] * r[2], nd[2] * (r[2] + r[1])>>, r, anos + 1)

\* the fractions a and b are the same number
MesmoValor(a, b) == a[1] * b[2] = b[1] * a[2]

\* C3: after construction self.valor_emprestimo is P * (1 + r)^t for a rate
\* r > 0, the exponent being the term in years, and is P itself when the
\* rate is 0 or omitted.
C3_JurosCompostos ==
    fase = "viva" =>
        IF entrada.taxa_juros # None /\ entrada.taxa_juros[1] > 0
        THEN MesmoValor(self.valor_emprestimo,
                        Capitaliza(entrada.valor_emprestimo, entrada.taxa_juros,
                                   entrada.tempo_anos))
        ELSE self.valor_emprestimo = entrada.valor_emprestimo

\* 1200 at 10% over 2 years is stored as 1452
C3_Witness ==
    /\ fase = "viva"
    /\ entrada.valor_emprestimo = <<1200, 1>>
    /\ entrada.taxa_juros = <<1, 10>>
    /\ entrada.tempo_anos = 2
    /\ self.valor_emprestimo = <<1452, 1>>

\* C4 as stated: for valor_emprestimo > 0 and tempo_anos >= 1 the amounts of
\* the returned lines sum to self.valor_emprestimo within 1e-6 relative, each
\* line carrying self.valor_emprestimo / parcelas.
C4_SomaDentroDeUmMilionesimo ==
    (RetornouLista /\ entrada.tempo_anos >= 1 /\ entrada.valor_emprestimo[1] > 0) =>
        LET n == Len(retorno.valor)
            a == self.valor_emprestimo
            centavos == [k \in 1..n |-> CentavosDaLinha(retorno.valor[k])]
            soma == Soma(centavos)
        IN  /\ 10000 * Abs(soma * a[2] - 100 * a[1]) <= a[1]
            /\ \A k \in 1..n : centavos[k] * a[2] * n = 100 * a[1]

\* C4 amended: each line carries the same amount, within 0.005 of
\* self.valor_emprestimo / parcelas (that quotient rounded to two decimals),
\* so the amounts sum to self.valor_emprestimo within 0.005 * parcelas; the
\* unrounded valor_parcela times parcelas is self.valor_emprestimo.
C4_SomaDentroDoArredondamento ==
    (RetornouLista /\ entrada.tempo_anos >= 1 /\ entrada.valor_emprestimo[1] > 0) =>
        LET n == Len(retorno.valor)
            a == self.valor_emprestimo
            centavos == [k \in 1..n |-> CentavosDaLinha(retorno.valor[k])]
            soma == Soma(centavos)
        IN  /\ n = entrada.tempo_anos * 12
            /\ \A k \in 1..n :
                  /\ centavos[k] = centavos[1]
                  /\ 2 * Abs(centavos[k] * a[2] * n - 100 * a[1]) <= a[2] * n
            /\ 2 * Abs(soma * a[2] - 100 * a[1]) <= n * a[2]
            /\ valor_parcela(self).ok
            /\ MesmoValor(FMul(valor_parcela(self).valor, FromInt(n)), a)

\* 1000 over 12 installments: twelve lines of 83.33 sum to 999.96
C4_Witness ==
    /\ RetornouLista
    /\ entrada.tempo_anos = 1
    /\ self.valor_emprestimo = <<1000, 1>>
    /\ CentavosDaLinha(retorno.valor[1]) = 8333
    /\ SomaCentavos(retorno.valor) = 99996

\* the text is dd/mm/yyyy and names a day of the calendar
DataExiste(t) ==
    /\ FormaDDMMAAAA(t)
    /\ DataDoTexto(t).year >= 1
    /\ DataDoTexto(t).month \in 1..12
    /\ DataDoTexto(t).day \in 1..UltimoDia(DataDoTexto(t).year, DataDoTexto(t).month)

\* the text has the wrong separators, or is dd/mm/yyyy with an impossible
\* month or day
Malformada(t) == Contem(t, <<"-">>) \/ (FormaDDMMAAAA(t) /\ ~ DataExiste(t))

\* C5: constructing with such a start-date text raises ValueError with a
\* message holding the text and the pattern "dd/mm/aaaa"; valor_emprestimo,
\* tempo_anos and taxa_juros are not stored and nothing can be called.
C5_DataInvalidaFalha ==
    (fase # "inicio" /\ Malformada(entrada.data_inicial_str)) =>
        /\ fase = "falhou"
        /\ erro.tipo = "ValueError"
        /\ Contem(erro.msg, entrada.data_inicial_str)
        /\ Contem(erro.msg, <<"d", "d", "/", "m", "m", "/", "a", "a", "a", "a">>)
        /\ DOMAIN self \cap {"valor_emprestimo", "tempo_anos", "taxa_juros",
                             "data_inicial_datetime"} = {}
        /\ chamadas = 0 /\ historico = <<>> /\ stdout = <<>>
        /\ ~ PodeChamar

\* "31/13/2024" was refused
C5_Witness ==
    /\ fase = "falhou"
    /\ entrada.data_inicial_str = <<"3", "1", "/", "1", "3", "/", "2", "0", "2", "4">>
    /\ erro.tipo = "ValueError"

\* C6 as stated: every returned line shows its amount with exactly two digits
\* after the decimal point and its due date as dd/mm/yyyy.
C6_DuasCasasDecimais ==
    RetornouLista =>
        \A k \in 1..Len(retorno.valor) :
            LET c == Campos(retorno.valor[k])
                v == Split(c[3], ".")
            IN  /\ FormaDDMMAAAA(c[1])
                /\ Len(v) = 2
                /\ Len(v[2]) = 2

\* C7: an instance built with taxa_juros = 0.0 has the valor_emprestimo, and
\* returns the list (or raises the error), that the instance built from the
\* same other arguments with taxa_juros omitted has.
C7_TaxaZeroComoOmitida ==
    (fase = "viva" /\ entrada.taxa_juros = <<0, 1>>) =>
        LET o == init(entrada.valor_emprestimo, entrada.tempo_anos,
                      entrada.data_inicial_str, TaxaOmitida)
            c == calcula_parcelas_vencimentos(o.self)
        IN  /\ o.ok
            /\ o.self.valor_emprestimo = self.valor_emprestimo
            /\ retorno.op = "calcula_parcelas_vencimentos" =>
                  IF erro.tipo = "nenhum"
                  THEN c.ok /\ c.lista = retorno.valor
                  ELSE ~ c.ok /\ c.erro = erro

\* a two-year loan at rate 0.0 returned its list
C7_Witness ==
    /\ RetornouLista
    /\ entrada.taxa_juros = <<0, 1>>
    /\ entrada.tempo_anos = 2
    /\ Len(retorno.valor) = 24

\* C8: once built, no call changes an attribute of the instance (the interest
\* is not applied again), and all the lists calcula_parcelas_vencimentos has
\* returned are the same list.
C8_ChamadasNaoMudam ==
    [][fase = "viva" =>
          /\ self' = self
          /\ \A i, j \in 1..Len(historico') : historico'[i] = historico'[j]]_vars

\* a loan with interest was asked for its list twice
C8_Witness ==
    /\ fase = "viva"
    /\ entrada.taxa_juros = <<1, 10>>
    /\ entrada.tempo_anos >= 1
    /\ Len(historico) = 2
    /\ Len(historico[1]) >= 12

\* C9: with tempo_anos = 0, valor_parcela raises ZeroDivisionError and so does
\* calcula_parcelas_vencimentos, which returns no list; with tempo_anos < 0
\* neither raises and calcula_parcelas_vencimentos returns the empty list.
C9_TermoNaoPositivo ==
    fase = "viva" =>
        /\ entrada.tempo_anos = 0 =>
              /\ retorno.op \in {"valor_parcela", "calcula_parcelas_vencimentos"} =>
                    erro.tipo = "ZeroDivisionError" /\ "valor" \notin DOMAIN retorno
              /\ historico = <<>>
        /\ entrada.tempo_anos < 0 =>
              /\ retorno.op \in {"valor_parcela", "calcula_parcelas_vencimentos"} =>
                    erro.tipo = "nenhum" /\ "valor" \in DOMAIN retorno
              /\ retorno.op = "calcula_parcelas_vencimentos" => retorno.valor = <<>>

\* calcula_parcelas_vencimentos raised on a loan of zero years
C9_Witness ==
    /\ fase = "viva"
    /\ entrada.tempo_anos = 0
    /\ retorno.op = "calcula_parcelas_vencimentos"
    /\ erro.tipo = "ZeroDivisionError"

====
